---- MODULE Spec2Model ----
(***************************************************************************)
(* Span processing and export pipeline of aflores-msc/otel-demo.           *)
(*                                                                         *)
(* Two programs build a pipeline on a TracerProvider:                      *)
(*   otel_demo.py            SecurityAndContextProcessor, then a           *)
(*                           BatchSpanProcessor over the OTLP exporter;    *)
(*   spanexporter_gemini.py  ContextInjectionProcessor, then a             *)
(*                           BatchSpanProcessor over AsyncRedactingExporter*)
(*                           wrapping the OTLP exporter.                   *)
(*                                                                         *)
(* Attribute values are a tagged union [t, v]: t is "str", "num" or "bool" *)
(* and v the value's text as a sequence of one-character strings; an       *)
(* absent key has t = "none".                                              *)
(***************************************************************************)
EXTENDS Integers, Sequences, FiniteSets, TLC

\* ------------------------------------------------------------------------
\* Characters and the classes the three detectors use
\* ------------------------------------------------------------------------

Digit == {"0", "1", "2", "3", "4", "5", "6", "7", "8", "9"}

Lower == {"a", "b", "c", "d", "e", "f", "g", "h", "i", "j", "k", "l", "m",
          "n", "o", "p", "q", "r", "s", "t", "u", "v", "w", "x", "y", "z"}

Upper == {"A", "B", "C", "D", "E", "F", "G", "H", "I", "J", "K", "L", "M",
          "N", "O", "P", "Q", "R", "S", "T", "U", "V", "W", "X", "Y", "Z"}

\* \w of the re module, on ASCII text
WordChar == Digit \cup Lower \cup Upper \cup {"_"}

\* [A-Za-z0-9._%+-]
LocalChar == Upper \cup Lower \cup Digit \cup {".", "_", "%", "+", "-"}

\* [A-Za-z0-9.-]
DomainChar == Upper \cup Lower \cup Digit \cup {".", "-"}

\* [A-Z|a-z]: the bar is a member of the class
TldChar == Upper \cup Lower \cup {"|"}

\* [ -]
SepChar == {" ", "-"}

\* the {2,7} of the email detector
TldMin == 2

TldMax == 7

\* the {13,16} of the card detector
CardMin == 13

CardMax == 16

\* the replacement text "[REDACTED PII]"
Marker == <<"[", "R", "E", "D", "A", "C", "T", "E", "D", " ", "P", "I", "I", "]">>

\* \b between s[p] and s[p+1] (p = 0: start of the text, p = Len(s): its end)
IsBoundary(s, p) ==
    LET before == p >= 1 /\ p <= Len(s) /\ s[p] \in WordChar
        after  == p + 1 >= 1 /\ p + 1 <= Len(s) /\ s[p + 1] \in WordChar
    IN  before # after

RECURSIVE RunEnd(_, _, _)
\* last index of the longest run of characters of class C that starts at i
\* (i - 1 when s[i] is not in C)
RunEnd(s, i, C) ==
    IF i >= 1 /\ i <= Len(s) /\ s[i] \in C THEN RunEnd(s, i + 1, C) ELSE i - 1

Max(S) == CHOOSE x \in S : \A y \in S : y <= x

Min2(a, b) == IF a <= b THEN a ELSE b

\* \b[A-Za-z0-9._%+-]+@[A-Za-z0-9.-]+\.[A-Z|a-z]{2,7}\b at position i:
\* the index of the match's last character, 0 when there is no match at i.
\* The local part is greedy and must stop at the "@"; the domain is greedy
\* and gives characters back until "." TLD \b follows; the TLD is greedy.
EmailEnd(s, i) ==
    LET a  == RunEnd(s, i, LocalChar)
        d0 == a + 2
        dE == RunEnd(s, d0, DomainChar)
        TldEnds(k) ==
            LET t0 == k + 2
                tE == Min2(RunEnd(s, t0, TldChar), t0 + TldMax - 1)
            IN  {e \in (t0 + TldMin - 1)..tE : IsBoundary(s, e)}
        Ks == {k \in d0..dE : k + 1 <= Len(s) /\ s[k + 1] = "." /\ TldEnds(k) # {}}
    IN  IF /\ IsBoundary(s, i - 1)
           /\ a >= i
           /\ a + 1 <= Len(s)
           /\ s[a + 1] = "@"
           /\ Ks # {}
        THEN Max(TldEnds(Max(Ks)))
        ELSE 0

RECURSIVE CardWalk_NoBoundary(_, _, _)
\* CardWalk for a detector written without its closing \b
CardWalk_NoBoundary(s, pos, count) ==
    IF count < CardMin
    THEN LET q == RunEnd(s, pos + 1, SepChar) + 1
         IN  IF q <= Len(s) /\ s[q] \in Digit
             THEN CardWalk_NoBoundary(s, q, count + 1)
             ELSE 0
    ELSE IF count < CardMax /\ pos + 1 <= Len(s) /\ s[pos + 1] \in Digit
         THEN CardWalk_NoBoundary(s, pos + 1, count + 1)
         ELSE pos

RECURSIVE CardWalk(_, _, _)
\* pos is the index of the count-th digit of a candidate match of
\* (?:\d[ -]*?){13,16}\b. Below 13 digits the lazy separators must be
\* consumed to reach the next digit; from 13 on another group is tried first
\* (greedy), then \b with no separator consumed.
CardWalk(s, pos, count) ==
    IF count < CardMin
    THEN LET q == RunEnd(s, pos + 1, SepChar) + 1
         IN  IF q <= Len(s) /\ s[q] \in Digit
             THEN CardWalk(s, q, count + 1)
             ELSE 0
    ELSE IF count < CardMax /\ pos + 1 <= Len(s) /\ s[pos + 1] \in Digit
         THEN CardWalk(s, pos + 1, count + 1)
         ELSE IF IsBoundary(s, pos) THEN pos ELSE 0

\* \b(?:\d[ -]*?){13,16}\b at position i
CardEnd(s, i) ==
    IF IsBoundary(s, i - 1) /\ i <= Len(s) /\ s[i] \in Digit
    THEN CardWalk(s, i, 1)
    ELSE 0

\* \b\d{3}-\d{2}-\d{4}\b at position i
SsnEnd(s, i) ==
    IF /\ IsBoundary(s, i - 1)
       /\ i + 10 <= Len(s)
       /\ \A j \in {0, 1, 2, 4, 5, 7, 8, 9, 10} : s[i + j] \in Digit
       /\ s[i + 3] = "-"
       /\ s[i + 6] = "-"
       /\ IsBoundary(s, i + 10)
    THEN i + 10
    ELSE 0

\* self.patterns, in list order
patterns == <<"email", "card", "ssn">>

MatchEnd(p, s, i) ==
    CASE p = "email" -> EmailEnd(s, i)
      [] p = "card"  -> CardEnd(s, i)
      [] p = "ssn"   -> SsnEnd(s, i)

RECURSIVE SubFrom(_, _, _)
\* pattern.sub("[REDACTED PII]", s), scanning from index i: leftmost,
\* non-overlapping matches, each replaced by the marker
SubFrom(p, s, i) ==
    IF i > Len(s) THEN <<>>
    ELSE LET e == MatchEnd(p, s, i)
         IN  IF e > 0
             THEN Marker \o SubFrom(p, s, e + 1)
             ELSE <<s[i]>> \o SubFrom(p, s, i + 1)

PatternSub(p, s) == SubFrom(p, s, 1)

RECURSIVE ScrubFrom(_, _)
\* for pattern in self.patterns: value = pattern.sub(...), from the n-th on
ScrubFrom(n, s) ==
    IF n > Len(patterns) THEN s
    ELSE ScrubFrom(n + 1, PatternSub(patterns[n], s))

\* the text of a string value after the substitution loop
Scrub(s) == ScrubFrom(1, s)

\* ------------------------------------------------------------------------
\* Bounds of the model
\* ------------------------------------------------------------------------

\* spans the programs create
MaxSpans == 3

\* max_queue_size of the batch processor
MaxQueueSize == 2

\* max_export_batch_size of the batch processor
MaxExportBatchSize == 2

SpanIds == 1..MaxSpans

Scripts == {"otel_demo", "gemini"}

\* ------------------------------------------------------------------------
\* Attribute values
\* ------------------------------------------------------------------------

TxtRedacted == <<"[", "R", "E", "D", "A", "C", "T", "E", "D", "]">>

TxtTrue == <<"T", "r", "u", "e">>

TxtGemini == <<"g", "e", "m", "i", "n", "i">>

TxtUser == <<"u", "s", "e", "r", "_", "1", "0", "0">>

TxtModel == <<"g", "p", "t", "-", "4", "-", "t", "u", "r", "b", "o">>

MsgClean == <<"W", "h", "a", "t", " ", "i", "s", "?">>

MsgEmail == <<"t", "o", " ", "a", "p", "p", "l", "i", "c", "a", "n", "t", "9", "9",
              "@", "d", "e", "m", "o", ".", "c", "o", "m", ".">>

ReplyClean == <<"T", "o", "k", "y", "o">>

ReplyCard == <<"p", "a", "y", " ", "4", "1", "1", "1", "-", "1", "1", "1", "1", "-",
               "1", "1", "1", "1", "-", "1", "1", "1", "1">>

StrV(v) == [t |-> "str", v |-> v]

BoolTrue == [t |-> "bool", v |-> TxtTrue]

Absent == [t |-> "none", v |-> <<>>]

\* self.skip_keys
skip_keys == {"meta.span_id", "meta.trace_id", "meta.parent_id"}

Keys == skip_keys \cup
        {"payment.amount", "user.id", "eval.model",
         "app.context_dump", "gen_ai.response.completion",
         "gen_ai.system", "gen_ai.usage.prompt_tokens",
         "security.pii_scrubbed", "security.async_regex_scrubbed"}

NoAttributes == [k \in Keys |-> Absent]

Present(attrs) == {k \in Keys : attrs[k].t # "none"}

\* ------------------------------------------------------------------------
\* Span identity: ids are kept as their hexadecimal digits (values 0..15),
\* most significant first
\* ------------------------------------------------------------------------

\* the enclosing span of a nested start_as_current_span, 0 for a root span:
\* process_payment / process_chat open the root, run_ai_eval / call_gemini a
\* child inside it
Parent(s) == IF s % 2 = 0 THEN s - 1 ELSE 0

Root(s) == IF Parent(s) = 0 THEN s ELSE Parent(s)

\* 64-bit span ids; those of odd spans have decimal digits only
SpanIdOf(s) ==
    IF s % 2 = 1 THEN [i \in 1..16 |-> (s + i) % 10]
                 ELSE [i \in 1..16 |-> (s * i + 9) % 16]

\* 128-bit trace ids, shared by a root and its children
TraceIdOf(s) == [i \in 1..32 |-> (7 * Root(s) + 3 * i) % 16]

HexDigits == <<"0", "1", "2", "3", "4", "5", "6", "7",
               "8", "9", "a", "b", "c", "d", "e", "f">>

\* format(span_id, "016x")
format_span_id(id) == [i \in 1..16 |-> HexDigits[id[i] + 1]]

\* format(trace_id, "032x")
format_trace_id(id) == [i \in 1..32 |-> HexDigits[id[i] + 1]]

\* ------------------------------------------------------------------------
\* The synchronous processors
\* ------------------------------------------------------------------------

SecurityAndContextProcessor_on_start(s, attrs) ==
    LET a1 == [attrs EXCEPT !["meta.trace_id"] = StrV(format_trace_id(TraceIdOf(s)))]
        a2 == [a1 EXCEPT !["meta.span_id"] = StrV(format_span_id(SpanIdOf(s)))]
    IN  IF Parent(s) # 0
        THEN [a2 EXCEPT !["meta.parent_id"] = StrV(format_span_id(SpanIdOf(Parent(s))))]
        ELSE a2

\* on_end that records the audit flag and leaves the value in place
SecurityAndContextProcessor_on_end_FlagOnly(attrs) ==
    IF Present(attrs) # {} /\ "payment.amount" \in Present(attrs)
    THEN [attrs EXCEPT !["security.pii_scrubbed"] = BoolTrue]
    ELSE attrs

SecurityAndContextProcessor_on_end(attrs) ==
    IF Present(attrs) # {} /\ "payment.amount" \in Present(attrs)
    THEN [attrs EXCEPT !["payment.amount"] = StrV(TxtRedacted),
                       !["security.pii_scrubbed"] = BoolTrue]
    ELSE attrs

ContextInjectionProcessor_on_start(s, attrs) ==
    LET a1 == [attrs EXCEPT !["meta.trace_id"] = StrV(format_trace_id(TraceIdOf(s)))]
        a2 == [a1 EXCEPT !["meta.span_id"] = StrV(format_span_id(SpanIdOf(s)))]
    IN  IF Parent(s) # 0
        THEN [a2 EXCEPT !["meta.parent_id"] = StrV(format_span_id(SpanIdOf(Parent(s))))]
        ELSE a2

ContextInjectionProcessor_on_end(attrs) == attrs

\* the batch processor registered before the custom processor
processors_BatchFirst(sc) ==
    IF sc = "otel_demo"
    THEN <<"BatchSpanProcessor", "SecurityAndContextProcessor">>
    ELSE <<"BatchSpanProcessor", "ContextInjectionProcessor">>

\* trace_provider.add_span_processor calls, in order
processors(sc) ==
    IF sc = "otel_demo"
    THEN <<"SecurityAndContextProcessor", "BatchSpanProcessor">>
    ELSE <<"ContextInjectionProcessor", "BatchSpanProcessor">>

on_start(proc, s, attrs) ==
    CASE proc = "SecurityAndContextProcessor" -> SecurityAndContextProcessor_on_start(s, attrs)
      [] proc = "ContextInjectionProcessor"   -> ContextInjectionProcessor_on_start(s, attrs)
      [] OTHER                                -> attrs

on_end(proc, attrs) ==
    CASE proc = "SecurityAndContextProcessor" -> SecurityAndContextProcessor_on_end(attrs)
      [] proc = "ContextInjectionProcessor"   -> ContextInjectionProcessor_on_end(attrs)
      [] OTHER                                -> attrs

RECURSIVE on_span_start(_, _, _, _)
\* the start hooks of the registered processors, from the i-th on
on_span_start(procs, i, s, attrs) ==
    IF i > Len(procs) THEN attrs
    ELSE on_span_start(procs, i + 1, s, on_start(procs[i], s, attrs))

\* ------------------------------------------------------------------------
\* The application's set_attribute calls, in program order
\* ------------------------------------------------------------------------
\* Each function's writes are represented by the ones a processor or the
\* exporter acts on (payment.amount, the two texts of process_chat) and by one
\* string and one number that no detector matches; the further writes of the
\* same kind (eval.score, eval.correctness.*, gen_ai.request.model,
\* gen_ai.usage.completion_tokens), span events and statuses are left out, and
\* so is the stripe_gateway_auth span, which sets no attribute.

Call(k, t, vals) == [key |-> k, t |-> t, vals |-> vals]

process_payment ==
    << Call("payment.amount", "num", {<<"5", "0">>, <<"4", "8", "0">>}),
       Call("user.id", "str", {TxtUser}) >>

run_ai_eval == << Call("eval.model", "str", {TxtModel}) >>

\* the messages __main__ passes to process_chat, in order
test_messages == <<MsgEmail, MsgClean>>

\* process_chat on a message; the completion is whatever the model returned
process_chat(message) ==
    << Call("app.context_dump", "str", {message}),
       Call("gen_ai.response.completion", "str", {ReplyClean, ReplyCard}) >>

call_gemini ==
    << Call("gen_ai.system", "str", {TxtGemini}),
       Call("gen_ai.usage.prompt_tokens", "num", {<<"7">>}) >>

AppCalls(sc, s) ==
    IF sc = "otel_demo"
    THEN IF Parent(s) = 0 THEN process_payment ELSE run_ai_eval
    ELSE IF Parent(s) = 0
         THEN process_chat(test_messages[((((s + 1) \div 2) - 1) % Len(test_messages)) + 1])
         ELSE call_gemini

\* ------------------------------------------------------------------------
\* The exporter chain
\* ------------------------------------------------------------------------

\* ExportValue without the skip_keys test
ExportValue_NoSkip(k, val) ==
    IF val.t = "str" THEN [val EXCEPT !.v = Scrub(val.v)] ELSE val

\* the value export leaves under key k
ExportValue(k, val) ==
    IF k \in skip_keys THEN val
    ELSE IF val.t = "str" THEN [val EXCEPT !.v = Scrub(val.v)]
    ELSE val

\* the loop body setting the audit flag whether or not a value changed
AsyncRedactingExporter_export_span_AlwaysFlag(attrs) ==
    IF Present(attrs) = {} THEN attrs
    ELSE [[k \in Keys |-> ExportValue(k, attrs[k])]
            EXCEPT !["security.async_regex_scrubbed"] = BoolTrue]

\* one iteration of "for span in spans" of AsyncRedactingExporter.export
AsyncRedactingExporter_export_span(attrs) ==
    IF Present(attrs) = {} THEN attrs
    ELSE LET scrubbed == [k \in Keys |-> ExportValue(k, attrs[k])]
             is_scrubbed == \E k \in Present(attrs) : scrubbed[k] # attrs[k]
         IN  IF is_scrubbed
             THEN [scrubbed EXCEPT !["security.async_regex_scrubbed"] = BoolTrue]
             ELSE scrubbed

\* export that delegates first and scrubs afterwards
AsyncRedactingExporter_export_DelegateFirst(batch) ==
    LET done == [i \in DOMAIN batch |->
                   [batch[i] EXCEPT !.attrs = AsyncRedactingExporter_export_span(@)]]
    IN  [spans |-> done, delivered |-> <<batch>>]

\* export that delegates inside the loop, once per span
AsyncRedactingExporter_export_PerSpan(batch) ==
    LET done == [i \in DOMAIN batch |->
                   [batch[i] EXCEPT !.attrs = AsyncRedactingExporter_export_span(@)]]
    IN  [spans |-> done, delivered |-> [i \in DOMAIN batch |-> done]]

\* AsyncRedactingExporter.export on a batch of spans [id, attrs]: the spans
\* as the loop leaves them, and the batches handed to
\* underlying_exporter.export, in call order
AsyncRedactingExporter_export(batch) ==
    LET done == [i \in DOMAIN batch |->
                   [batch[i] EXCEPT !.attrs = AsyncRedactingExporter_export_span(@)]]
    IN  [spans |-> done, delivered |-> <<done>>]

\* the exporter the BatchSpanProcessor was constructed with, outermost first
exporter_chain(sc) ==
    IF sc = "otel_demo" THEN <<"OTLPSpanExporter">>
    ELSE <<"AsyncRedactingExporter", "OTLPSpanExporter">>

\* export of the chain's outermost exporter
export(sc, batch) ==
    IF exporter_chain(sc)[1] = "AsyncRedactingExporter"
    THEN AsyncRedactingExporter_export(batch)
    ELSE [spans |-> batch, delivered |-> <<batch>>]

\* shutdown that does not reach the wrapped exporter
AsyncRedactingExporter_shutdown_NoPropagate == {"AsyncRedactingExporter"}

\* AsyncRedactingExporter.shutdown: the exporters shut down by the call
AsyncRedactingExporter_shutdown == {"AsyncRedactingExporter", "OTLPSpanExporter"}

\* shutdown of the chain's outermost exporter
exporter_shutdown(sc) ==
    IF exporter_chain(sc)[1] = "AsyncRedactingExporter"
    THEN AsyncRedactingExporter_shutdown
    ELSE {"OTLPSpanExporter"}

\* ------------------------------------------------------------------------
\* State
\* ------------------------------------------------------------------------

VARIABLES
    script,          \* which program runs
    spans,           \* per span: st, attrs (_attributes), step, hook
    appSet,          \* per span: the keys the application set
    hist,            \* per span: the pipeline steps it went through, in order
    queue,           \* the export queue (oldest first)
    enq,             \* per span: outcome of its enqueue
    offered,         \* spans in the order they were offered to the queue
    dropped,         \* dropped-span counter
    cycles,          \* export cycles claimed and not yet returned
    received,        \* batches handed to the exporter chain, as received
    sent,            \* batches handed to the network sink
    lastResult,      \* outcome of the last transmission that returned
    phase,           \* provider lifecycle: running, draining, returned
    exporterDown     \* exporters whose shutdown was called

vars == <<script, spans, appSet, hist, queue, enq, offered,
          dropped, cycles, received, sent, lastResult, phase, exporterDown>>

appVars == <<spans, appSet, hist>>

queueVars == <<queue, enq, offered, dropped>>

workerVars == <<cycles, received, sent, lastResult>>

Init ==
    /\ script \in Scripts
    /\ spans = [s \in SpanIds |-> [st |-> "new", attrs |-> NoAttributes,
                                   step |-> 0, hook |-> 1]]
    /\ appSet = [s \in SpanIds |-> {}]
    /\ hist = [s \in SpanIds |-> <<>>]
    /\ queue = <<>>
    /\ enq = [s \in SpanIds |-> "none"]
    /\ offered = <<>>
    /\ dropped = 0
    /\ cycles = {}
    /\ received = <<>>
    /\ sent = <<>>
    /\ lastResult = "none"
    /\ phase = "running"
    /\ exporterDown = {}

\* ------------------------------------------------------------------------
\* Application thread
\* ------------------------------------------------------------------------

\* The application is one thread: a span starts after every span before it
\* that is not its parent has ended, and nothing else runs on the thread
\* while it is inside a span's end()
InProgramOrder(s) ==
    /\ \A r \in SpanIds : r > s => spans[r].st = "new"
    /\ \A r \in SpanIds : (r < s /\ r # Parent(s)) => spans[r].st \in {"new", "ended"}

NotInsideEnd(s) == \A r \in SpanIds : r # s => spans[r].st # "ending"

\* the number of set_attribute calls the parent has made when it calls the
\* function that opens the child span
ChildCallStep(sc) == IF sc = "otel_demo" THEN 2 ELSE 1

\* tracer.start_as_current_span: the span is created and every processor's
\* on_start runs, in registration order
StartSpan(s) ==
    /\ phase = "running"
    /\ spans[s].st = "new"
    /\ InProgramOrder(s)
    /\ IF Parent(s) = 0 THEN TRUE
       ELSE spans[Parent(s)].st = "live" /\ spans[Parent(s)].step = ChildCallStep(script)
    /\ spans' = [spans EXCEPT ![s].st = "live",
                              ![s].attrs = on_span_start(processors(script), 1, s, @)]
    /\ hist' = [hist EXCEPT ![s] = Append(@, "on_start")]
    /\ UNCHANGED <<script, appSet, queueVars, workerVars,
                   phase, exporterDown>>

HasOpenChild(s) ==
    \E c \in SpanIds : Parent(c) = s /\ spans[c].st \in {"live", "ending"}

\* the next span.set_attribute(key, value) of the function that owns span s
SetAttribute(s) ==
    /\ spans[s].st = "live"
    /\ ~HasOpenChild(s)
    /\ spans[s].step < Len(AppCalls(script, s))
    /\ LET c == AppCalls(script, s)[spans[s].step + 1]
       IN  \E v \in c.vals :
             spans' = [spans EXCEPT ![s].attrs[c.key] = [t |-> c.t, v |-> v],
                                    ![s].step = @ + 1]
    /\ appSet' = [appSet EXCEPT ![s] = @ \cup {AppCalls(script, s)[spans[s].step + 1].key}]
    /\ hist' = [hist EXCEPT ![s] = Append(@, "set_attribute")]
    /\ UNCHANGED <<script, queueVars, workerVars, phase, exporterDown>>

\* an enqueue that makes room by evicting the oldest entry
Enqueue_DropOldest(s) ==
    /\ queue' = IF Len(queue) >= MaxQueueSize
                THEN Append(Tail(queue), s) ELSE Append(queue, s)
    /\ enq' = [enq EXCEPT ![s] = "accepted"]
    /\ dropped' = dropped
    /\ hist' = [hist EXCEPT ![s] = Append(@, "enqueue")]

\* BatchSpanProcessor.on_end: enqueue, or drop when the queue is full
Enqueue(s) ==
    IF Len(queue) >= MaxQueueSize
    THEN /\ dropped' = dropped + 1
         /\ enq' = [enq EXCEPT ![s] = "dropped"]
         /\ queue' = queue
         /\ hist' = [hist EXCEPT ![s] = Append(@, "drop")]
    ELSE /\ queue' = Append(queue, s)
         /\ enq' = [enq EXCEPT ![s] = "accepted"]
         /\ dropped' = dropped
         /\ hist' = [hist EXCEPT ![s] = Append(@, "enqueue")]

\* span.end() (the exit of the with block) runs the processors' on_end one
\* after the other on the application thread; each step is one processor's
\* on_end, and the export worker may run between two of them
EndHook(s) ==
    /\ \/ spans[s].st = "live" /\ ~HasOpenChild(s)
       \/ spans[s].st = "ending"
    /\ NotInsideEnd(s)
    /\ LET procs == processors(script)
           i     == spans[s].hook
           next  == IF i = Len(procs) THEN "ended" ELSE "ending"
       IN  IF procs[i] = "BatchSpanProcessor"
           THEN /\ Enqueue(s)
                /\ offered' = Append(offered, s)
                /\ spans' = [spans EXCEPT ![s].st = next, ![s].hook = i + 1]
           ELSE /\ spans' = [spans EXCEPT ![s].st = next, ![s].hook = i + 1,
                                          ![s].attrs = on_end(procs[i], @)]
                /\ hist' = [hist EXCEPT ![s] = Append(@, "on_end")]
                /\ UNCHANGED queueVars
    /\ UNCHANGED <<script, appSet, workerVars, phase, exporterDown>>

\* ------------------------------------------------------------------------
\* Export worker
\* ------------------------------------------------------------------------

\* a worker that starts a cycle whatever it is doing
WorkerIdle_Always == TRUE

\* the single worker thread is between cycles
WorkerIdle == cycles = {}

\* the worker claims up to max_export_batch_size entries, oldest first;
\* forced marks a cycle of the shutdown drain
ClaimBatch ==
    /\ WorkerIdle
    /\ queue # <<>>
    /\ LET n == Min2(Len(queue), MaxExportBatchSize)
       IN  /\ cycles' = cycles \cup {[ids |-> SubSeq(queue, 1, n), stage |-> "claimed",
                                      forced |-> phase = "draining"]}
           /\ queue' = SubSeq(queue, n + 1, Len(queue))
    /\ UNCHANGED <<script, appVars, enq, offered, dropped,
                   received, sent, lastResult, phase, exporterDown>>

\* schedule_delay_millis elapsed
TimerCycle == phase = "running" /\ ClaimBatch

\* the queue reached max_export_batch_size
SizeCycle == phase = "running" /\ Len(queue) >= MaxExportBatchSize /\ ClaimBatch

\* forced cycle of the shutdown drain
ShutdownCycle == phase = "draining" /\ ClaimBatch

RECURSIVE Tags(_)
\* one "transmit" per hand-over to the network sink
Tags(n) == IF n = 0 THEN <<>> ELSE Append(Tags(n - 1), "transmit")

Ids(batch) == {batch[i].id : i \in DOMAIN batch}

\* export of the exporter chain is called on the spans of cycle c. The spans
\* are the objects the queue held, so the exporter's writes are made to them.
CallExport(c) ==
    \E batch \in {[i \in DOMAIN c.ids |->
                     [id |-> c.ids[i], attrs |-> spans[c.ids[i]].attrs]]} :
    \E r \in {export(script, batch)} :
      LET after(s) == CHOOSE i \in DOMAIN r.spans : r.spans[i].id = s
          redact == IF exporter_chain(script)[1] = "AsyncRedactingExporter"
                    THEN <<"redact">> ELSE <<>>
      IN  /\ cycles' = (cycles \ {c}) \cup {[c EXCEPT !.stage = "transmitting"]}
          /\ received' = Append(received, [spans |-> batch, forced |-> c.forced])
          /\ sent' = sent \o [j \in DOMAIN r.delivered |->
                                [spans |-> r.delivered[j], cycle |-> Len(received) + 1]]
          /\ spans' = [s \in SpanIds |->
                         IF s \in Ids(r.spans)
                         THEN [spans[s] EXCEPT !.attrs = r.spans[after(s)].attrs]
                         ELSE spans[s]]
          /\ hist' = [s \in SpanIds |->
                        IF s \in Ids(batch)
                        THEN hist[s] \o redact \o Tags(Len(r.delivered))
                        ELSE hist[s]]
          /\ UNCHANGED <<script, appSet, queueVars, lastResult, phase, exporterDown>>

\* the worker hands the batch it claimed to the exporter chain
ExportCall == \E c \in cycles : c.stage = "claimed" /\ CallExport(c)

\* the network call returns Success, or Failure (an error or the export
\* timeout); either way the worker lets go of the batch
TransmitResult(res) ==
    \E c \in cycles :
      /\ c.stage = "transmitting"
      /\ lastResult' = res
      /\ cycles' = cycles \ {c}
      /\ UNCHANGED <<script, appVars, queueVars, received, sent,
                     phase, exporterDown>>

\* ------------------------------------------------------------------------
\* Shutdown
\* ------------------------------------------------------------------------

\* trace_provider.shutdown() is called after the last with block has closed
ShutdownCall ==
    /\ phase = "running"
    /\ \A s \in SpanIds : spans[s].st \in {"new", "ended"}
    /\ phase' = "draining"
    /\ UNCHANGED <<script, appVars, queueVars, workerVars, exporterDown>>

\* the worker has drained the queue and exited; the batch processor shuts
\* its exporter down and shutdown returns
ShutdownReturn ==
    /\ phase = "draining"
    /\ queue = <<>>
    /\ WorkerIdle
    /\ exporterDown' = exporterDown \cup exporter_shutdown(script)
    /\ phase' = "returned"
    /\ UNCHANGED <<script, appVars, queueVars, workerVars>>

Worker ==
    \/ TimerCycle
    \/ SizeCycle
    \/ ShutdownCycle
    \/ ExportCall
    \/ \E res \in {"Success", "Failure"} : TransmitResult(res)

Next ==
    \/ \E s \in SpanIds : StartSpan(s)
    \/ \E s \in SpanIds : SetAttribute(s)
    \/ \E s \in SpanIds : EndHook(s)
    \/ Worker
    \/ ShutdownCall
    \/ ShutdownReturn

Spec == Init /\ [][Next]_vars

\* a claimed batch is waiting for the worker to call export on it: the
\* enabling condition of ExportCall
ExportEnabled == \E c \in cycles : c.stage = "claimed"

\* weak fairness of ExportCall, written out with its enabling condition
ExportFair == []<>(~ExportEnabled) \/ []<><<ExportCall>>_vars

\* The worker thread keeps running (it wakes on the timer, on the batch-size
\* notification and on shutdown), every network call returns within
\* export_timeout_millis, and the thread inside shutdown keeps running.
FairSpec ==
    /\ Spec
    /\ WF_vars(TimerCycle \/ SizeCycle \/ ShutdownCycle)
    /\ ExportFair
    /\ WF_vars(\E res \in {"Success", "Failure"} : TransmitResult(res))
    /\ WF_vars(ShutdownReturn)

\* ------------------------------------------------------------------------
\* The redaction of one string value, over a family of texts
\* ------------------------------------------------------------------------

\* tokens a text is concatenated from
MaxTokens == 3

TokEmail == <<"a", "@", "b", ".", "c", "o">>

TokDigits == <<"4", "1", "1", "1", "1", "1", "1", "1", "1", "1", "1", "1", "1">>

TokSsn == <<"1", "2", "3", "-", "4", "5", "-", "6", "7", "8", "9">>

Tokens == {TokEmail, TokDigits, TokSsn,
           <<" ">>, <<"x">>, <<"1">>, <<"-">>, <<"@">>, <<".">>}

RECURSIVE Texts(_)
\* the concatenations of at most n tokens
Texts(n) ==
    IF n = 0 THEN {<<>>}
    ELSE Texts(n - 1) \cup {a \o k : a \in Texts(n - 1), k \in Tokens}

\* spanexporter_gemini.py after process_chat put a text into app.context_dump
\* of span 1 and the span ended into the queue
ScrubInit ==
    /\ script = "gemini"
    /\ \E v \in Texts(MaxTokens) :
         spans = [s \in SpanIds |->
                    IF s = 1
                    THEN [st |-> "ended",
                          attrs |-> [ContextInjectionProcessor_on_start(1, NoAttributes)
                                       EXCEPT !["app.context_dump"] = StrV(v)],
                          step |-> 1, hook |-> 3]
                    ELSE [st |-> "new", attrs |-> NoAttributes, step |-> 0, hook |-> 1]]
    /\ appSet = [s \in SpanIds |-> IF s = 1 THEN {"app.context_dump"} ELSE {}]
    /\ hist = [s \in SpanIds |->
                 IF s = 1 THEN <<"on_start", "set_attribute", "on_end", "enqueue">>
                 ELSE <<>>]
    /\ queue = <<1>>
    /\ enq = [s \in SpanIds |-> IF s = 1 THEN "accepted" ELSE "none"]
    /\ offered = <<1>>
    /\ dropped = 0
    /\ cycles = {}
    /\ received = <<>>
    /\ sent = <<>>
    /\ lastResult = "none"
    /\ phase = "running"
    /\ exporterDown = {}

\* export called a second time on the batch it has already exported
ReExport ==
    \E c \in cycles : c.stage = "transmitting" /\ Len(received) = 1 /\ CallExport(c)

ScrubNext ==
    \/ TimerCycle
    \/ ExportCall
    \/ ReExport
    \/ \E res \in {"Success", "Failure"} : TransmitResult(res)

ScrubSpec == ScrubInit /\ [][ScrubNext]_vars

\* ------------------------------------------------------------------------
\* Properties
\* ------------------------------------------------------------------------

HasRedactor == exporter_chain(script)[1] = "AsyncRedactingExporter"

\* the keys export scans
Scanned == Keys \ skip_keys

\* scrubbing changes at least one scanned string value of attrs
Changes(attrs) ==
    \E k \in Scanned : attrs[k].t = "str" /\ Scrub(attrs[k].v) # attrs[k].v

\* C1: every span on which the application set payment.amount reaches the
\* network sink with payment.amount = "[REDACTED]" and
\* security.pii_scrubbed = true, whatever the interleaving of span endings
\* and export cycles.
C1_AmountRedactedAtSink ==
    \A j \in DOMAIN sent : \A i \in DOMAIN sent[j].spans :
        LET sp == sent[j].spans[i]
        IN  "payment.amount" \in appSet[sp.id] =>
              /\ sp.attrs["payment.amount"] = StrV(TxtRedacted)
              /\ sp.attrs["security.pii_scrubbed"] = BoolTrue

C1_Witness ==
    \E j \in DOMAIN sent : \E i \in DOMAIN sent[j].spans :
        "payment.amount" \in appSet[sent[j].spans[i].id]

Rank(tag) ==
    CASE tag = "on_start"      -> 1
      [] tag = "set_attribute" -> 2
      [] tag = "on_end"        -> 3
      [] tag = "enqueue"       -> 4
      [] tag = "drop"          -> 4
      [] tag = "redact"        -> 5
      [] tag = "transmit"      -> 6

Ordered(h) ==
    \A i, j \in DOMAIN h :
        i < j => \/ Rank(h[i]) < Rank(h[j])
                 \/ h[i] = "set_attribute" /\ h[j] = "set_attribute"

Queued == {queue[i] : i \in DOMAIN queue}

Claimed == UNION {{c.ids[i] : i \in DOMAIN c.ids} : c \in cycles}

\* C2: per span the steps start hooks, application mutation, end hooks,
\* enqueue, redaction in the exporter, transmission happen in that order,
\* each at most once (mutation aside); a span that is in the queue or in an
\* export cycle has had every on_end hook run, the custom processor's first,
\* and a span is exported only after it was enqueued.
C2_PipelineOrder ==
    \A s \in SpanIds :
        /\ Ordered(hist[s])
        /\ s \in Queued \cup Claimed =>
              /\ spans[s].st = "ended"
              /\ spans[s].hook > Len(processors(script))
        /\ (hist[s] # <<>> /\ hist[s][Len(hist[s])] \in {"redact", "transmit"}) =>
              \E i \in DOMAIN hist[s] : hist[s][i] = "enqueue"

C2_Witness ==
    /\ script = "gemini"
    /\ hist[1] = <<"on_start", "set_attribute", "set_attribute", "on_end",
                   "enqueue", "redact", "transmit">>

\* C3: when AsyncRedactingExporter.export calls the inner exporter, every
\* scanned string attribute of every span of the batch holds its scrubbed
\* value, and the batch handed over has the spans of the batch received, in
\* the same order.
C3_ScrubbedBeforeDelegation ==
    HasRedactor =>
      \A j \in DOMAIN sent :
        LET in  == received[sent[j].cycle].spans
            out == sent[j].spans
        IN  /\ Len(out) = Len(in)
            /\ \A i \in DOMAIN in :
                  /\ out[i].id = in[i].id
                  /\ \A k \in Scanned :
                        in[i].attrs[k].t = "str" =>
                          out[i].attrs[k] = StrV(Scrub(in[i].attrs[k].v))

C3_Witness ==
    /\ HasRedactor
    /\ \E j \in DOMAIN sent :
         /\ Len(sent[j].spans) = 2
         /\ \E i \in DOMAIN sent[j].spans :
               Changes(received[sent[j].cycle].spans[i].attrs)

\* C4: the values of meta.trace_id, meta.span_id and meta.parent_id that
\* on_start wrote are the same after AsyncRedactingExporter.export as before
\* it, also when a value matches a detector.
C4_SkipKeysUntouched ==
    HasRedactor =>
      \A j \in DOMAIN sent : \A i \in DOMAIN sent[j].spans :
        LET in  == received[sent[j].cycle].spans[i]
            out == sent[j].spans[i]
        IN  /\ \A k \in skip_keys : out.attrs[k] = in.attrs[k]
            /\ out.attrs["meta.span_id"] = StrV(format_span_id(SpanIdOf(in.id)))
            /\ out.attrs["meta.trace_id"] = StrV(format_trace_id(TraceIdOf(in.id)))
            /\ Parent(in.id) # 0 =>
                  out.attrs["meta.parent_id"] = StrV(format_span_id(SpanIdOf(Parent(in.id))))

C4_Witness ==
    /\ HasRedactor
    /\ \E j \in DOMAIN sent : \E i \in DOMAIN sent[j].spans : \E k \in skip_keys :
         LET val == sent[j].spans[i].attrs[k]
         IN  val.t = "str" /\ Scrub(val.v) # val.v

\* a span whose next end hook is the batch processor's
AtEnqueue(s) ==
    /\ spans[s].st \in {"live", "ending"}
    /\ spans[s].hook <= Len(processors(script))
    /\ processors(script)[spans[s].hook] = "BatchSpanProcessor"

\* C5: the queue never holds more than its capacity; an enqueue on a full
\* queue drops the incoming span, leaves the queue as it was and adds one to
\* the drop counter, which never decreases; the enqueue step can always be
\* taken (it does not wait for room); with capacity 2 and three spans
\* offered without a drain, the first two are queued, the third is dropped
\* and the counter is 1.
C5_Backpressure ==
    /\ [](Len(queue) <= MaxQueueSize)
    /\ [](\A s \in SpanIds : (spans[s].st = "ending" /\ AtEnqueue(s)) => ENABLED EndHook(s))
    /\ []((MaxQueueSize = 2 /\ Len(offered) = 3 /\ received = <<>> /\ cycles = {}) =>
            /\ queue = <<offered[1], offered[2]>>
            /\ enq[offered[3]] = "dropped"
            /\ dropped = 1)
    /\ [][/\ dropped' >= dropped
          /\ \A s \in SpanIds :
                (enq[s] = "none" /\ enq'[s] # "none") =>
                  IF Len(queue) >= MaxQueueSize
                  THEN enq'[s] = "dropped" /\ queue' = queue /\ dropped' = dropped + 1
                  ELSE enq'[s] = "accepted" /\ queue' = Append(queue, s)
                       /\ dropped' = dropped]_vars

C5_Witness ==
    /\ Len(queue) = MaxQueueSize
    /\ dropped = 1
    /\ received = <<>>
    /\ cycles = {}

\* C6: no span is in two batches handed to the network sink, and a span that
\* was handed to the sink is never back in the queue or in a later cycle,
\* whatever the outcome of its transmission.
C6_AtMostOnce ==
    /\ \A j1, j2 \in DOMAIN sent :
          j1 # j2 => Ids(sent[j1].spans) \cap Ids(sent[j2].spans) = {}
    /\ \A j \in DOMAIN sent :
          /\ Ids(sent[j].spans) \cap Queued = {}
          /\ \A c \in cycles :
                Ids(sent[j].spans) \cap {c.ids[i] : i \in DOMAIN c.ids} # {} =>
                  c.stage = "transmitting" /\ sent[j].cycle = Len(received)

C6_Witness ==
    /\ lastResult = "Failure"
    /\ Len(sent) >= 2
    /\ \E c \in cycles : c.stage = "transmitting"

Handed == UNION {Ids(received[j].spans) : j \in DOMAIN received}

C8_ScrubIdempotent ==
    /\ \A j \in DOMAIN received : \A i \in DOMAIN received[j].spans :
          \A k \in Scanned :
            LET val == received[j].spans[i].attrs[k]
            IN  val.t = "str" => Scrub(Scrub(val.v)) = Scrub(val.v)
    /\ Len(sent) >= 2 => sent[2].spans = sent[1].spans

C8_Witness ==
    /\ Len(sent) >= 2
    /\ sent[1].spans # received[1].spans

C10_AuditFlag ==
    HasRedactor =>
      \A j \in DOMAIN sent : \A i \in DOMAIN sent[j].spans :
        LET in  == received[sent[j].cycle].spans[i].attrs
            out == sent[j].spans[i].attrs
        IN  IF Changes(in)
            THEN out["security.async_regex_scrubbed"] = BoolTrue
            ELSE out["security.async_regex_scrubbed"] # BoolTrue /\ out = in

C10_Witness ==
    /\ HasRedactor
    /\ \E j \in DOMAIN sent :
         /\ \E i \in DOMAIN sent[j].spans :
               Changes(received[sent[j].cycle].spans[i].attrs)
         /\ \E i \in DOMAIN sent[j].spans :
               /\ ~Changes(received[sent[j].cycle].spans[i].attrs)
               /\ sent[j].spans[i].attrs["gen_ai.usage.prompt_tokens"].t = "num"
====
